---- MODULE Spec2Model ----
(***************************************************************************)
(* A model of the POSOCO daily-report pipeline                             *)
(* (src/posoco/management/commands/posoco.py, src/posoco/models.py) and of *)
(* the job dashboard (src/report_dashboard/views.py, models.py).           *)
(*                                                                         *)
(* Spec        one invocation of the management command up to the call of  *)
(*             extract_tables_from_pdf or its end without a PDF: date      *)
(*             resolution, the report directory, the listing cascade,      *)
(*             candidate selection, printed-date verification, the         *)
(*             unconditional fallback.                                     *)
(* SpecExtract extract_tables_from_pdf over the tables structural          *)
(*             extraction may produce, and the save_to_db that follows.    *)
(* SpecSelect  candidate selection over listings, long ones among them.    *)
(* SpecParse   _parse_date_from_string over the renderings of dates.       *)
(* SpecKeys    get_short_key_simple over row labels.                       *)
(* SpecDb      concurrent invocations from the resolution of the target    *)
(*             date to save_to_db, update_or_create being a lookup and,    *)
(*             when nothing matches, a later insert.                       *)
(* SpecSeq     the same invocations run one after the other.               *)
(* SpecDirs    make_report_dir of invocations started at any time of two   *)
(*             days.                                                       *)
(* SpecJobs    the dashboard views over the AutomationJob rows, and the    *)
(*             command in the process run_script_view starts.  Each view   *)
(*             is one step; subprocess.Popen is taken to succeed.          *)
(*                                                                         *)
(* Calendar dates are day numbers (integers); NoDate stands for Python's   *)
(* None.  The wall clock is read once per run: the local date is Today and *)
(* the UTC date is utcToday (equal to Today or one day behind it, as in a  *)
(* time zone east of Greenwich); the date does not roll over inside a run. *)
(* os.remove of an existing scratch file is taken to succeed.  The stores   *)
(* are tables of a database at READ COMMITTED isolation; models.py declares *)
(* no unique constraint on them.                                           *)
(***************************************************************************)
EXTENDS Integers, Sequences, FiniteSets, TLC

\* ------------------------------------------------------------- bounds
\* The local calendar day of the run.
Today == 10
\* The greatest number of entries in one listing response.
MaxListing == 2
\* The greatest number of tables structural extraction yields.
MaxTables == 3
\* The number of invocations started in one behaviour of SpecDb, SpecSeq and
\* SpecDirs.
MaxRuns == 2
\* The last second of the day.
MaxTime == 2
\* The number of processes run_script_view starts in one behaviour of SpecJobs.
MaxSpawn == 1
\* The greatest number of words in a label handed to get_short_key_simple.
MaxLabel == 3
\* The greatest number of entries in a listing handed to candidate selection.
MaxLong == 9
\* The years the dates handed to the date parser are taken from.
MinYear == 2011
MaxYear == 2013

\* -------------------------------------------------- program constants
\* None
NoDate == 0
\* datetime(1970, 1, 1), the sort key of an entry with no inferable date
Epoch == 1
\* range(0, 7): the number of days of the per-day scan
ScanDays == 7
\* pdf_files_sorted[:8]
TopN == 8
\* strftime("%m"): the month a day number lies in
DaysPerMonth == 30

PDF == "application/pdf"

VARIABLES
    pc,             \* where the invocation stands
    utcToday,       \* datetime.utcnow().date()
    raw_date,       \* options['date']: [given, parsed]
    desired_date,   \* target_date of handle, desired_date of fetch_latest_pdf
    response_data,  \* the listing response the cascade settled on
    lastResp,       \* the kind of the last listing response
    queries,        \* the listing queries issued: <<[payload, nonempty]>>
    candidates,     \* the candidate list: indices into response_data.retData
    ci,             \* the candidate the inspection loop is at
    temp_files,     \* temp_files_to_cleanup
    scratch,        \* the scratch files that exist on disk
    downloads,      \* the file downloads attempted: <<[item, phase, got, printed]>>
    latest_item,    \* the entry the unconditional fallback chose (0: none)
    accepted,       \* the accepted report: [item, printed, how]
    report_files,   \* the files of the report directory: {[name, item]}
    report_dir,     \* the report directory make_report_dir created
    clock_time,     \* the time of day, in whole seconds
    made_dirs,      \* the report directories made, one per call of make_report_dir
    date_str,       \* the string _parse_date_from_string is applied to
    parsed_dt,      \* what _parse_date_from_string returned for it
    pdf_path,       \* the value fetch_latest_pdf returns (NoDate: None)
    outcome,        \* why fetch_latest_pdf returned
    \* extract_tables_from_pdf
    tables,         \* what tabula.read_pdf returned
    ti,             \* the table the identification loop is at
    table_a_df,     \* the table bound as Table A (0: None)
    table_g_df,     \* the table bound as Table G (0: None)
    read_raised,    \* tabula.read_pdf raised
    extracted,      \* final_json["POSOCO"] as extract_tables_from_pdf returns it
    label,          \* the row label get_short_key_simple is applied to
    short_key,      \* get_short_key_simple(label)
    short_key2,     \* get_short_key_simple(short_key)
    \* the invocations of SpecDb and SpecSeq, and the stores
    now,            \* datetime.now().date()
    runs,           \* the invocations started so far
    ipc,            \* where each invocation stands
    target,         \* target_date of each invocation
    report_date,    \* today of save_to_db
    final_json,     \* the extracted record each invocation persists
    pos,            \* the row save_to_db is at
    save_result,    \* how save_to_db ended
    tableA,         \* the rows of PosocoTableA, in order of creation
    tableG,         \* the rows of PosocoTableG, in order of creation
    lastWrite,      \* per key, the values most recently passed to update_or_create
    written,        \* the rows the save_to_db last entered has upserted
    jobs,           \* the AutomationJob rows, by script_name
    spawned,        \* the processes run_script_view has started, by script_name
    api_today       \* today of the last dashboard_status_api

fetchVars == <<utcToday, raw_date, desired_date, response_data, lastResp, queries,
               candidates, ci, temp_files, scratch, downloads, latest_item, accepted,
               report_files, report_dir, date_str, parsed_dt, pdf_path, outcome,
               clock_time, made_dirs>>

extractVars == <<tables, ti, table_a_df, table_g_df, read_raised, extracted,
                 label, short_key, short_key2>>

jobVars == <<jobs, spawned, api_today>>

dbVars == <<now, runs, ipc, target, report_date, final_json, pos, save_result,
            tableA, tableG, lastWrite, written, jobVars>>

vars == <<pc, fetchVars, extractVars, dbVars>>

\* ------------------------------------------------------------ inputs

Entry(m, p, n, md, pr) ==
    [mime |-> m, path |-> p, nameDate |-> n, metaDate |-> md, printed |-> pr]

\* The listing entries the remote API may return.  path: the entry has a
\* FilePath; nameDate: the date token in its file name or path; metaDate: its
\* metadata date field; printed: the date printed on the first page of the file.
Entries ==
    { Entry(PDF, TRUE, Today, NoDate, Today),
      Entry(PDF, TRUE, NoDate, Today - 1, Today - 1),
      Entry(PDF, TRUE, Today, Today - 2, NoDate),
      Entry(PDF, FALSE, NoDate, Today, Today),
      Entry("text/html", TRUE, Today, Today, Today),
      Entry(PDF, TRUE, NoDate, NoDate, Today - 2) }

Listings == UNION { [1..n -> Entries] : n \in 1..MaxListing }

\* Entries of a long listing: none names or dates today, so that selection
\* falls to the ordering by inferred date; one has no date at all.
LongEntries ==
    { Entry(PDF, TRUE, NoDate, Today - 2, Today - 2),
      Entry(PDF, TRUE, Today - 3, NoDate, Today - 3),
      Entry(PDF, TRUE, NoDate, NoDate, Today) }

\* The listings candidate selection is applied to: the short ones, and long
\* ones with more than TopN entries.
SelectListings ==
    Listings \cup UNION { [1..n -> LongEntries] : n \in (TopN + 1)..MaxLong }

NoResponse == [kind |-> "none", retData |-> <<>>]

\* What one listing query may come back with: a transport or decode failure,
\* an empty listing, a body that is JSON but not an object, or a listing.
Responses ==
    { [kind |-> k, retData |-> <<>>] : k \in {"fail", "empty", "malformed"} }
        \cup { [kind |-> "data", retData |-> L] : L \in Listings }

RawDates ==
    { [given |-> FALSE, parsed |-> NoDate], [given |-> TRUE, parsed |-> NoDate] }
        \cup { [given |-> TRUE, parsed |-> d] : d \in {Today - 1, Today} }

\* -------------------------------------------------------- date resolution

\* Mutant: a date string that does not parse is taken for no date at all.
ParseFails_Never(r) == FALSE

\* raw_date is truthy and _parse_date_from_string(raw_date) is None.  An absent
\* and an empty --date are both falsy: given is FALSE for them.
ParseFails(r) == r.given /\ r.parsed = NoDate

\* A string is a sequence of characters: the digits 0..9 and the hyphen.
Dash == 10

Digits == 0..9

\* A date as strptime yields it; NoDateTime stands for None.
DateTime(y, m, d) == [y |-> y, m |-> m, d |-> d]

NoDateTime == DateTime(0, 0, 0)

IsLeap(y) == y % 4 = 0 /\ (y % 100 # 0 \/ y % 400 = 0)

DaysIn(y, m) ==
    IF m = 2 THEN (IF IsLeap(y) THEN 29 ELSE 28)
    ELSE IF m \in {4, 6, 9, 11} THEN 30 ELSE 31

\* The dates datetime can hold.
ValidDate(dt) == dt.y >= 1 /\ dt.m \in 1..12 /\ dt.d \in 1..DaysIn(dt.y, dt.m)

\* The patterns of _parse_date_from_string, in order.  re: the regular
\* expression, "d" for \d; fmt: the strptime format, one code per character.
Patterns ==
    << [re |-> <<"d", "d", "d", "d", "-", "d", "d", "-", "d", "d">>,
        fmt |-> <<"Y", "Y", "Y", "Y", "-", "m", "m", "-", "d", "d">>],
       [re |-> <<"d", "d", "-", "d", "d", "-", "d", "d", "d", "d">>,
        fmt |-> <<"d", "d", "-", "m", "m", "-", "Y", "Y", "Y", "Y">>],
       [re |-> <<"d", "d", "d", "d", "d", "d", "d", "d">>,
        fmt |-> <<"d", "d", "m", "m", "Y", "Y", "Y", "Y">>],
       [re |-> <<"d", "d", "d", "d", "d", "d", "d", "d">>,
        fmt |-> <<"Y", "Y", "Y", "Y", "m", "m", "d", "d">>] >>

CharMatches(c, cls) == IF cls = "d" THEN c \in Digits ELSE c = Dash

\* The regular expression re matches s at position i.
MatchesAt(s, re, i) ==
    /\ i + Len(re) - 1 <= Len(s)
    /\ \A k \in 1..Len(re) : CharMatches(s[i + k - 1], re[k])

\* re.search(re, s).group(1): the leftmost match, <<>> when there is none
Search(s, re) ==
    LET at == { i \in 1..Len(s) : MatchesAt(s, re, i) }
    IN  IF at = {} THEN <<>>
        ELSE LET i == CHOOSE i \in at : \A j \in at : i <= j
             IN  SubSeq(s, i, i + Len(re) - 1)

RECURSIVE ToNumber(_)
ToNumber(ds) ==
    IF ds = <<>> THEN 0
    ELSE 10 * ToNumber(SubSeq(ds, 1, Len(ds) - 1)) + ds[Len(ds)]

\* The number a format code stands for in the text t.
Field(t, fmt, code) ==
    ToNumber(SelectSeq([i \in 1..Len(fmt) |-> IF fmt[i] = code THEN t[i] ELSE Dash],
                       LAMBDA c : c # Dash))

\* datetime.strptime(t, fmt), NoDateTime when it raises ValueError
Strptime(t, fmt) ==
    LET dt == DateTime(Field(t, fmt, "Y"), Field(t, fmt, "m"), Field(t, fmt, "d"))
    IN  IF ValidDate(dt) THEN dt ELSE NoDateTime

\* datetime.fromisoformat(s.split(".")[0]): the string as a whole in the ISO
\* layout; the packed layout is read the same way by the versions that take it.
FromIso(s) ==
    IF Len(s) = Len(Patterns[1].re) /\ MatchesAt(s, Patterns[1].re, 1)
    THEN Strptime(s, Patterns[1].fmt)
    ELSE IF Len(s) = Len(Patterns[4].re) /\ MatchesAt(s, Patterns[4].re, 1)
    THEN Strptime(s, Patterns[4].fmt)
    ELSE NoDateTime

\* The loop over the patterns from the i-th on, then the ISO fallback.
RECURSIVE TryPatterns(_, _)
TryPatterns(s, i) ==
    IF i > Len(Patterns) THEN FromIso(s)
    ELSE LET m == Search(s, Patterns[i].re)
         IN  IF m # <<>> /\ Strptime(m, Patterns[i].fmt) # NoDateTime
             THEN Strptime(m, Patterns[i].fmt)
             ELSE TryPatterns(s, i + 1)

\* _parse_date_from_string
ParseDateFromString(s) == IF s = <<>> THEN NoDateTime ELSE TryPatterns(s, 1)

Pad2(n) == <<n \div 10, n % 10>>

Pad4(n) == <<n \div 1000, (n \div 100) % 10, (n \div 10) % 10, n % 10>>

\* The four renderings of a date: YYYY-MM-DD, DD-MM-YYYY, DDMMYYYY, YYYYMMDD.
Render(dt, f) ==
    IF f = 1 THEN Pad4(dt.y) \o <<Dash>> \o Pad2(dt.m) \o <<Dash>> \o Pad2(dt.d)
    ELSE IF f = 2 THEN Pad2(dt.d) \o <<Dash>> \o Pad2(dt.m) \o <<Dash>> \o Pad4(dt.y)
    ELSE IF f = 3 THEN Pad2(dt.d) \o Pad2(dt.m) \o Pad4(dt.y)
    ELSE Pad4(dt.y) \o Pad2(dt.m) \o Pad2(dt.d)

Renderings == 1..4

\* The calendar dates of the years MinYear..MaxYear.
Dates ==
    { dt \in [y : MinYear..MaxYear, m : 1..12, d : 1..31] : ValidDate(dt) }

\* A string handed to the parser: its text, and the date and the rendering it
\* was written from (NoDateTime, 0: from none).
DateString(text, dt, f) == [text |-> text, of |-> dt, fmt |-> f]

NoString == DateString(<<>>, NoDateTime, 0)

\* The strings the parser is applied to: every rendering of every date, and
\* strings that are no date (a lone hyphen, month 13 in each layout).
DateStrings ==
    { DateString(Render(dt, f), dt, f) : dt \in Dates, f \in Renderings }
        \cup { DateString(<<Dash>>, NoDateTime, 0) }
        \cup { DateString(Render(DateTime(MaxYear, 13, 1), f), NoDateTime, 0) :
                 f \in Renderings }

\* No report directory has been created.
NoDir == [made |-> FALSE, date_part |-> NoDate, timestamp |-> 0]

\* make_report_dir: the directory report_<date_part>_<timestamp> now exists,
\* timestamp being the time of day in whole seconds (%H-%M-%S).
MakeReportDir(d, t) == [made |-> TRUE, date_part |-> d, timestamp |-> t]

\* Mutant: handle goes on to the extraction whatever fetch_latest_pdf returned.
AfterFetch_Always(path) == "extract"

\* if pdf_path: extraction and persistence follow; else handle reports the
\* failed download and finishes.
AfterFetch(path) == IF path # NoDate THEN "extract" ELSE "finished"

\* ------------------------------------------------------- the listing cascade

MonthOf(d) == d \div DaysPerMonth

\* payload (module level) and daily_payload
DatedPayload(d) ==
    [source |-> "GRDW", type |-> "DAILY_PSP_REPORT", fileDate |-> d, month |-> MonthOf(d)]

\* payload_no_dates
NoDatePayload ==
    [source |-> "GRDW", type |-> "DAILY_PSP_REPORT", fileDate |-> NoDate, month |-> NoDate]

\* Mutant: the scan goes back one day more.
LastTier_Longer == ScanDays + 2

LastTier == ScanDays + 1

\* Mutant: the exact query and the scan are anchored at the target date.
CascadePayload_Target(t) ==
    IF t = 0 THEN DatedPayload(desired_date)
    ELSE IF t = 1 THEN NoDatePayload
    ELSE DatedPayload(desired_date - (t - 2))

\* The payload of the t-th listing query of a run, t = 0 .. LastTier.
CascadePayload(t) ==
    IF t = 0 THEN DatedPayload(Today)
    ELSE IF t = 1 THEN NoDatePayload
    ELSE DatedPayload(Today - (t - 2))

\* Mutant: a failed request is not caught and reaches fetch_latest_pdf's handler.
PostAndGetRetdata_Raises(r) ==
    IF r.kind = "fail" THEN [kind |-> "malformed", retData |-> <<>>] ELSE r

\* _post_and_get_retdata: a failure yields None
PostAndGetRetdata(r) ==
    IF r.kind = "fail" THEN [kind |-> "empty", retData |-> <<>>] ELSE r

\* Mutant: the cascade does not look at retData and goes on after a listing.
NoRetData_Ignored(r) == r.kind # "malformed"

\* not response_data or not response_data.get("retData")
NoRetData(r) == r.kind # "malformed" /\ r.retData = <<>>

\* ------------------------------------------------------ candidate selection

Indices(L) == [i \in 1..Len(L) |-> i]

PdfFiles(L) == SelectSeq(Indices(L), LAMBDA i : L[i].mime = PDF)

InferDateSafe(e) == IF e.metaDate # NoDate THEN e.metaDate ELSE e.nameDate

FilenameContainsToday(e, utc) == e.nameDate # NoDate /\ e.nameDate \in {Today, utc}

FileDateKey(e) == IF InferDateSafe(e) # NoDate THEN InferDateSafe(e) ELSE Epoch

\* sorted(..., reverse=True) is stable: x goes after every entry whose key is
\* at least its own.
InsertDesc(L, s, x) ==
    LET n == Cardinality({ j \in 1..Len(s) : FileDateKey(L[s[j]]) >= FileDateKey(L[x]) })
    IN  SubSeq(s, 1, n) \o <<x>> \o SubSeq(s, n + 1, Len(s))

RECURSIVE SortedDesc(_, _)
SortedDesc(L, s) ==
    IF s = <<>> THEN <<>>
    ELSE InsertDesc(L, SortedDesc(L, SubSeq(s, 1, Len(s) - 1)), s[Len(s)])

\* Mutant: the candidate list is not cut to its first entries.
Take_All(s, n) == s

Take(s, n) == SubSeq(s, 1, IF Len(s) < n THEN Len(s) ELSE n)

Candidates(L, utc) ==
    LET pdf == PdfFiles(L)
        byName == SelectSeq(pdf, LAMBDA i : FilenameContainsToday(L[i], utc))
        byMeta == SelectSeq(pdf, LAMBDA i : /\ InferDateSafe(L[i]) # NoDate
                                           /\ InferDateSafe(L[i]) \in {Today, utc})
    IN  IF byName # <<>> THEN byName
        ELSE IF byMeta # <<>> THEN byMeta
        ELSE Take(SortedDesc(L, pdf), TopN)

\* -------------------------------------------------- printed-date verification

\* The two acceptance tests of the inspection loop.
Accepts(printed, desired, utc) ==
    \/ printed # NoDate /\ desired # NoDate /\ printed = desired
    \/ printed # NoDate /\ printed \in {Today, utc} /\ desired = NoDate

\* pdf_name of an accepted candidate
VerifiedName(printed, desired) == IF desired # NoDate THEN desired ELSE printed

Range(s) == { s[i] : i \in 1..Len(s) }

\* The scratch files left by the clean-up loop of the success path; os.replace
\* has moved the accepted one (the last of temps) to the report directory.
CleanupAccepted(files, temps) == files \ Range(temps)

\* The scratch files left by the clean-up loop of the no-match path.
CleanupNoMatch(files, temps) == files \ Range(temps)

\* Mutant: the fallback takes the first PDF entry of the listing, unsorted.
LatestItem_Unsorted(L) == PdfFiles(L)[1]

\* pdf_files_sorted[0] of the unconditional fallback
LatestItem(L) == SortedDesc(L, PdfFiles(L))[1]

\* pdf_name of the unconditional fallback
FallbackName(e, desired) ==
    IF desired # NoDate THEN desired
    ELSE IF FileDateKey(e) > Epoch THEN FileDateKey(e) ELSE Today

\* ------------------------------------------------------ table identification

Null == "None"

\* The least element of a non-empty set of numbers.
Least(S) == CHOOSE m \in S : \A n \in S : m <= n

\* A row label is a sequence of fragments of text, none a prefix of another:
\* words, phrases whose inner spacing does not vary, and single whitespace
\* characters.
SP == " "
CR == "<CR>"
LF == "<LF>"

Whitespace == {SP, CR, LF}

PeakAnchor == "Demand Met during Evening Peak"

CoalAnchor == "Coal"

RECURSIVE LStrip(_)
LStrip(s) == IF s # <<>> /\ s[1] \in Whitespace THEN LStrip(Tail(s)) ELSE s

RECURSIVE RStrip(_)
RStrip(s) ==
    IF s # <<>> /\ s[Len(s)] \in Whitespace THEN RStrip(SubSeq(s, 1, Len(s) - 1)) ELSE s

\* str.strip()
Strip(s) == RStrip(LStrip(s))

\* Every run of whitespace of a stripped label becomes one space.
RECURSIVE Squeeze(_)
Squeeze(s) ==
    IF s = <<>> THEN <<>>
    ELSE IF s[1] \in Whitespace THEN <<SP>> \o Squeeze(LStrip(s))
    ELSE <<s[1]>> \o Squeeze(Tail(s))

\* ' '.join(str(original_key).replace('\r', ' ').split())
JoinSplit(s) == Squeeze(Strip(s))

\* clean_key of a row of Table A and of Table G
CleanKey(st, s) == IF st = "A" THEN JoinSplit(s) ELSE Strip(s)

StartsWith(key, pat) == Len(key) >= Len(pat) /\ SubSeq(key, 1, Len(pat)) = pat

KeyRule(prefix, pat, key) == [prefix |-> prefix, pat |-> pat, key |-> key]

\* Mutant: the energy rule tests the prefix "Energy" alone and comes first.
KeyRules_EnergyFirst ==
    << KeyRule(TRUE, <<"Energy">>, "energy"),
       KeyRule(TRUE, <<PeakAnchor>>, "demand_evening_peak"),
       KeyRule(TRUE, <<"Energy", SP, "Shortage">>, "energy_shortage"),
       KeyRule(TRUE, <<"Maximum Demand Met During the Day">>, "max_demand_day"),
       KeyRule(TRUE, <<"Time Of Maximum Demand Met">>, "time_of_max_demand"),
       KeyRule(TRUE, <<"Peak Shortage">>, "peak_shortage"),
       KeyRule(TRUE, <<"Hydro", SP, "Gen">>, "hydro"),
       KeyRule(TRUE, <<"Wind Gen">>, "wind"),
       KeyRule(TRUE, <<"Solar Gen">>, "solar"),
       KeyRule(FALSE, <<CoalAnchor>>, "coal"),
       KeyRule(FALSE, <<"Lignite">>, "lignite"),
       KeyRule(FALSE, <<"Hydro">>, "hydro"),
       KeyRule(FALSE, <<"Nuclear">>, "nuclear"),
       KeyRule(FALSE, <<"Gas, Naptha & Diesel">>, "gas_naptha_diesel"),
       KeyRule(TRUE, <<"RES">>, "res_total"),
       KeyRule(FALSE, <<"Total">>, "total") >>

\* The tests of get_short_key_simple, in order: startswith (prefix) or ==.
KeyRules ==
    << KeyRule(TRUE, <<PeakAnchor>>, "demand_evening_peak"),
       KeyRule(TRUE, <<"Energy", SP, "Shortage">>, "energy_shortage"),
       KeyRule(TRUE, <<"Maximum Demand Met During the Day">>, "max_demand_day"),
       KeyRule(TRUE, <<"Time Of Maximum Demand Met">>, "time_of_max_demand"),
       KeyRule(TRUE, <<"Peak Shortage">>, "peak_shortage"),
       KeyRule(TRUE, <<"Energy", SP, "Met">>, "energy"),
       KeyRule(TRUE, <<"Hydro", SP, "Gen">>, "hydro"),
       KeyRule(TRUE, <<"Wind Gen">>, "wind"),
       KeyRule(TRUE, <<"Solar Gen">>, "solar"),
       KeyRule(FALSE, <<CoalAnchor>>, "coal"),
       KeyRule(FALSE, <<"Lignite">>, "lignite"),
       KeyRule(FALSE, <<"Hydro">>, "hydro"),
       KeyRule(FALSE, <<"Nuclear">>, "nuclear"),
       KeyRule(FALSE, <<"Gas, Naptha & Diesel">>, "gas_naptha_diesel"),
       KeyRule(TRUE, <<"RES">>, "res_total"),
       KeyRule(FALSE, <<"Total">>, "total") >>

RuleMatches(r, key) == IF r.prefix THEN StartsWith(key, r.pat) ELSE key = r.pat

\* The rules that match a stripped key.
MatchingRules(key) == { i \in 1..Len(KeyRules) : RuleMatches(KeyRules[i], key) }

\* get_short_key_simple: the key of the first test that holds, else the
\* stripped label itself.
GetShortKeySimple(long_key) ==
    LET key == Strip(long_key)
    IN  IF MatchingRules(key) = {} THEN key
        ELSE <<KeyRules[Least(MatchingRules(key))].key>>

\* The keys of the template of Table A and of Table G.
TemplateKeysA ==
    << "demand_evening_peak", "peak_shortage", "energy", "hydro", "wind", "solar",
       "energy_shortage", "max_demand_day", "time_of_max_demand" >>

TemplateKeysG ==
    << "coal", "lignite", "hydro", "nuclear", "gas_naptha_diesel", "res_total", "total" >>

\* The words the labels handed to get_short_key_simple are made of.
Words == {"Energy", "Shortage", "Met", "Hydro", "Gen", "RES", "Total", "(MU)", SP, LF}

\* The labels get_short_key_simple is applied to: short sequences of words,
\* the text of every rule alone and followed by a unit, and the short keys.
Labels ==
    UNION { [1..n -> Words] : n \in 0..MaxLabel }
        \cup { KeyRules[i].pat : i \in 1..Len(KeyRules) }
        \cup { KeyRules[i].pat \o <<SP, "(MU)">> : i \in 1..Len(KeyRules) }
        \cup { <<KeyRules[i].key>> : i \in 1..Len(KeyRules) }

\* A row of a table: the label in its first column and its other cells.
Row(l, nr, total) == [label |-> l, cells |-> [NR |-> nr, TOTAL |-> total]]

\* any(anchor in s for s in first_col_str)
HasAnchor(rows, anchor) ==
    \E i \in 1..Len(rows) : \E k \in 1..Len(rows[i].label) : rows[i].label[k] = anchor

\* A table of tabula.read_pdf.  empty: df.empty or no columns; peak: its first
\* column contains "Demand Met during Evening Peak"; coal: it contains "Coal".
Table(empty, rows) ==
    [empty |-> empty, peak |-> HasAnchor(rows, PeakAnchor),
     coal |-> HasAnchor(rows, CoalAnchor), rows |-> rows]

\* The tables structural extraction may yield: an empty one; one with the
\* peak anchor, a row of empty cells and a label broken over two lines; one
\* with the coal anchor, two rows whose labels give the same key and a label
\* broken over two lines; one with both anchors; one with neither.
TableKinds ==
    { Table(TRUE, <<>>),
      Table(FALSE, << Row(<<PeakAnchor, SP, "(MW)">>, "1", Null),
                      Row(<<"Energy", SP, "Shortage">>, Null, Null),
                      Row(<<"Energy", LF, "Met">>, "2", "3") >>),
      Table(FALSE, << Row(<<CoalAnchor>>, "1", Null),
                      Row(<<"Hydro">>, "2", "3"),
                      Row(<<"Hydro", SP, "Gen">>, Null, "4"),
                      Row(<<"Energy", LF, "Met">>, "5", Null) >>),
      Table(FALSE, << Row(<<CoalAnchor>>, "2", Null),
                      Row(<<SP, PeakAnchor>>, Null, "1") >>),
      Table(FALSE, << Row(<<"Total">>, "1", "1") >>) }

TableSeqs == UNION { [1..n -> TableKinds] : n \in 0..MaxTables }

\* Mutant: the coal anchor is tested before the peak anchor.
BindTable_CoalFirst(df, i, a, g) ==
    IF df.empty THEN <<a, g>>
    ELSE IF df.coal THEN <<a, i>>
    ELSE IF df.peak THEN <<i, g>>
    ELSE <<a, g>>

\* The body of the identification loop for table i: <<table_a_df, table_g_df>>.
BindTable(df, i, a, g) ==
    IF df.empty THEN <<a, g>>
    ELSE IF df.peak THEN <<i, g>>
    ELSE IF df.coal THEN <<a, i>>
    ELSE <<a, g>>

\* ------------------------------------------------------------- persistence

Procs == {"i1", "i2"}

ColumnsA == {"NR", "WR", "SR", "ER", "NER", "TOTAL"}

ColumnsG == {"NR", "WR", "SR", "ER", "NER", "All India", "% Share"}

\* A value of the extracted mapping: a dict (a set of <<column, value>> pairs)
\* or None.
Dict(items) == [isdict |-> TRUE, items |-> items]

NoneValue == [isdict |-> FALSE, items |-> {}]

Item(k, v) == [key |-> k, values |-> v]

\* The empty template of extract_tables_from_pdf: every key with None.
TemplateJson ==
    [a |-> [i \in 1..Len(TemplateKeysA) |-> Item(<<TemplateKeysA[i]>>, NoneValue)],
     g |-> [i \in 1..Len(TemplateKeysG) |-> Item(<<TemplateKeysG[i]>>, NoneValue)]]

NoJson == [a |-> <<>>, g |-> <<>>]

\* row.dropna().to_dict(): the cells of the row that are not empty
RowDict(row) ==
    Dict({ <<c, row.cells[c]>> : c \in { c \in DOMAIN row.cells : row.cells[c] # Null } })

\* dropna(how='all') drops the row: every cell beside the label is empty
AllEmpty(row) == \A c \in DOMAIN row.cells : row.cells[c] = Null

\* d[k] = v of a Python dict: a key it holds keeps its place
DictSet(d, k, v) ==
    IF \E i \in 1..Len(d) : d[i].key = k
    THEN [i \in 1..Len(d) |-> IF d[i].key = k THEN Item(k, v) ELSE d[i]]
    ELSE Append(d, Item(k, v))

\* table_a_dict and table_g_dict: the rows that are not all empty, each under
\* its short key, a later row replacing an earlier one with the same key.
RECURSIVE TableDict(_, _)
TableDict(rows, st) ==
    IF rows = <<>> THEN <<>>
    ELSE LET d == TableDict(SubSeq(rows, 1, Len(rows) - 1), st)
             r == rows[Len(rows)]
         IN  IF AllEmpty(r) THEN d
             ELSE DictSet(d, GetShortKeySimple(CleanKey(st, r.label)), RowDict(r))

\* final_json["POSOCO"]: the lists posoco_table_a and posoco_table_g, each
\* empty or holding one mapping.
Posoco(a, g) == [posoco_table_a |-> a, posoco_table_g |-> g]

\* Nothing has been extracted.
NoPosoco == Posoco(<<>>, <<>>)

\* Mutant: the template fills in for each table that was not found.
FinalJson_PerTable(ts, a, g) ==
    Posoco(IF a # 0 THEN <<TableDict(ts[a].rows, "A")>> ELSE <<TemplateJson.a>>,
           IF g # 0 THEN <<TableDict(ts[g].rows, "G")>> ELSE <<TemplateJson.g>>)

\* What extract_tables_from_pdf returns for the tables ts, a and g being the
\* tables bound as Table A and Table G (0: none).
FinalJson(ts, a, g) ==
    IF a = 0 /\ g = 0 THEN Posoco(<<TemplateJson.a>>, <<TemplateJson.g>>)
    ELSE Posoco(IF a # 0 THEN <<TableDict(ts[a].rows, "A")>> ELSE <<>>,
                IF g # 0 THEN <<TableDict(ts[g].rows, "G")>> ELSE <<>>)

\* final_json and (posoco_table_a or posoco_table_g): handle calls save_to_db
HasData(fj) == fj.posoco_table_a # <<>> \/ fj.posoco_table_g # <<>>

\* table_a_data[0].items() and table_g_data[0].items(), none for an empty list
\* or an empty mapping
ItemsOf(fj) ==
    [a |-> IF fj.posoco_table_a # <<>> THEN fj.posoco_table_a[1] ELSE <<>>,
     g |-> IF fj.posoco_table_g # <<>> THEN fj.posoco_table_g[1] ELSE <<>>]

\* What extract_tables_from_pdf may hand to save_to_db: a and g are
\* final_json["POSOCO"]["posoco_table_a"][0].items() and its Table G like.
Jsons ==
    { [a |-> <<Item(<<"energy">>, Dict({<<"NR", "1">>})), Item(<<"hydro">>, Dict({}))>>,
       g |-> <<>>],
      [a |-> <<Item(<<"energy">>, Dict({<<"NR", "2">>, <<"TOTAL", "3">>})),
               Item(<<"hydro">>, Dict({<<"SR", "2">>}))>>,
       g |-> <<Item(<<"coal">>, Dict({<<"NR", "2">>, <<"All India", "3">>}))>>],
      [a |-> <<>>,
       g |-> <<Item(<<"coal">>, Dict({<<"% Share", "1">>}))>>],
      TemplateJson }

\* The rows save_to_db goes through: Table A's, then Table G's.
Rows(fj) ==
    [i \in 1..Len(fj.a) |-> [store |-> "A", key |-> fj.a[i].key, values |-> fj.a[i].values]]
        \o [i \in 1..Len(fj.g) |-> [store |-> "G", key |-> fj.g[i].key, values |-> fj.g[i].values]]

\* Mutant: a mapping is never skipped.
SkipsRow_Never(values) == FALSE

\* values is None or not a dict, or all(v is None for v in values.values())
SkipsRow(values) == ~values.isdict \/ values.items = {}

\* values.get(c)
DictGet(values, c) ==
    IF \E it \in values.items : it[1] = c
    THEN (CHOOSE it \in values.items : it[1] = c)[2]
    ELSE Null

\* defaults={...}
Defaults(values, cols) == [c \in cols |-> DictGet(values, c)]

Columns(store) == IF store = "A" THEN ColumnsA ELSE ColumnsG

\* filter(category=..., report_date=...): the rows of a store with the key
Matching(tbl, key, date) ==
    { i \in 1..Len(tbl) : tbl[i].key = key /\ tbl[i].report_date = date }

\* The row update_or_create creates.  written_for: the target date of the
\* invocation that wrote the row last; prev: its values before that write.
CreatedRow(key, date, values, cols, tgt) ==
    [key |-> key, report_date |-> date, vals |-> Defaults(values, cols),
     written_for |-> tgt, prev |-> [c \in cols |-> Null]]

\* Mutant: an update sets only the columns the new values hold.
UpdatedRow_KeepAbsent(row, values, cols, tgt) ==
    [row EXCEPT !.vals = [c \in cols |-> IF DictGet(values, c) # Null
                                         THEN DictGet(values, c) ELSE row.vals[c]],
                !.written_for = tgt, !.prev = row.vals]

\* The row update_or_create leaves when it finds the row: every default is set.
UpdatedRow(row, values, cols, tgt) ==
    [row EXCEPT !.vals = Defaults(values, cols), !.written_for = tgt,
                !.prev = row.vals]

\* Mutant: the upserts of save_to_db are one transaction, undone by an error.
AfterError_RolledBack(tbl, st, wr) ==
    SelectSeq(tbl, LAMBDA row : <<st, row.report_date, row.key>> \notin wr)

\* The rows of a store after save_to_db has caught a storage error, wr being
\* the rows it upserted before: each update_or_create has committed.
AfterError(tbl, st, wr) == tbl

\* date.today() of save_to_db
ReportDateOf(tgt, today) == today

\* ------------------------------------------------------------------ Init

\* ------------------------------------------------------ the job dashboard

\* The scripts of dashboard_view the model follows.
JobNames == {"posoco", "merge_reports"}

\* AutomationJob.Status
Statuses == {"IDLE", "RUNNING", "SUCCESS", "FAILED"}

\* The start message of run_script_view.
StartedMessage == "Execution started manually..."

\* No row of AutomationJob has this script_name.
NoJob ==
    [exists |-> FALSE, status |-> "IDLE", last_run_time |-> NoDate,
     last_success_time |-> NoDate, is_data_available_today |-> FALSE,
     log_message |-> ""]

\* AutomationJob.objects.create(script_name=name): the defaults of the fields
NewJob == [NoJob EXCEPT !.exists = TRUE]

\* run_script_view: the job as saved before the process is started
StartedJob(job, t) ==
    [job EXCEPT !.status = "RUNNING", !.last_run_time = t, !.log_message = StartedMessage]

\* Mutant: the status API takes a job with data of today for a finished one.
PolledJob_Success(job, data_exists) ==
    IF job.is_data_available_today # data_exists
    THEN [job EXCEPT !.is_data_available_today = data_exists,
                     !.status = IF data_exists THEN "SUCCESS" ELSE @,
                     !.last_success_time = IF data_exists THEN job.last_run_time ELSE @]
    ELSE job

\* dashboard_status_api: the job is saved only when its flag changes
PolledJob(job, data_exists) ==
    IF job.is_data_available_today # data_exists
    THEN [job EXCEPT !.is_data_available_today = data_exists]
    ELSE job

\* Mutant: only PosocoTableA is looked at.
DataExists_TableA(name, today, a, g, merged) ==
    IF name = "posoco"
    THEN \E i \in 1..Len(a) : a[i].report_date = today
    ELSE merged

\* data_exists of dashboard_status_api: for posoco a row of either table has
\* report_date = today; for merge_reports a merged file of today is there.
DataExists(name, today, a, g, merged) ==
    IF name = "posoco"
    THEN \/ \E i \in 1..Len(a) : a[i].report_date = today
         \/ \E i \in 1..Len(g) : g[i].report_date = today
    ELSE merged

NoAccepted == [item |-> 0, printed |-> NoDate, how |-> "none"]

FetchIdle ==
    /\ raw_date = [given |-> FALSE, parsed |-> NoDate]
    /\ desired_date = NoDate
    /\ response_data = NoResponse
    /\ lastResp = "none"
    /\ queries = <<>>
    /\ candidates = <<>>
    /\ ci = 1
    /\ temp_files = <<>>
    /\ scratch = {}
    /\ downloads = <<>>
    /\ latest_item = 0
    /\ accepted = NoAccepted
    /\ report_files = {}
    /\ report_dir = NoDir
    /\ clock_time = 0
    /\ made_dirs = <<>>
    /\ date_str = NoString
    /\ parsed_dt = NoDateTime
    /\ pdf_path = NoDate
    /\ outcome = "none"

ExtractIdle ==
    /\ tables = <<>>
    /\ ti = 1
    /\ table_a_df = 0
    /\ table_g_df = 0
    /\ read_raised = FALSE
    /\ extracted = NoPosoco
    /\ label = <<>>
    /\ short_key = <<>>
    /\ short_key2 = <<>>

\* No AutomationJob row exists and no process has been started.
JobsIdle ==
    /\ jobs = [n \in JobNames |-> NoJob]
    /\ spawned = [n \in JobNames |-> 0]
    /\ api_today = NoDate

RunsIdle ==
    /\ now = Today
    /\ runs = 0
    /\ ipc = [p \in Procs |-> "idle"]
    /\ target = [p \in Procs |-> NoDate]
    /\ report_date = [p \in Procs |-> NoDate]
    /\ final_json = [p \in Procs |-> NoJson]
    /\ pos = [p \in Procs |-> 1]
    /\ save_result = [p \in Procs |-> "none"]
    /\ tableA = <<>>
    /\ tableG = <<>>
    /\ lastWrite = <<>>
    /\ written = {}

DbIdle == RunsIdle /\ JobsIdle

\* An invocation of the command starts.
Init ==
    /\ pc = "start"
    /\ utcToday \in {Today - 1, Today}
    /\ FetchIdle
    /\ ExtractIdle
    /\ DbIdle

\* --------------------------------------------------------------- actions

Return(path, why) ==
    /\ pc' = "returned"
    /\ pdf_path' = path
    /\ outcome' = why

\* Command.handle up to the call of fetch_latest_pdf
HandleStart ==
    /\ pc = "start"
    /\ \E r \in RawDates :
        /\ raw_date' = r
        /\ IF ParseFails(r)
           THEN /\ pc' = "finished"
                /\ outcome' = "date_parse_error"
                /\ UNCHANGED <<desired_date, report_dir, made_dirs>>
           ELSE /\ pc' = "listing"
                /\ desired_date' = IF r.given THEN r.parsed ELSE Today
                /\ report_dir' = MakeReportDir(desired_date', clock_time)
                /\ made_dirs' = Append(made_dirs, report_dir')
                /\ UNCHANGED outcome
    /\ UNCHANGED <<utcToday, response_data, lastResp, queries, candidates, ci,
                   temp_files, scratch, downloads, latest_item, accepted,
                   report_files, date_str, parsed_dt, pdf_path, clock_time,
                   extractVars, dbVars>>

\* One listing query of the cascade and what fetch_latest_pdf does with its
\* answer: the next query, the not-found return, or candidate selection.
ListingQuery ==
    /\ pc = "listing"
    /\ \E r \in Responses :
        LET t == Len(queries)
            got == PostAndGetRetdata(r)
        IN  /\ lastResp' = r.kind
            /\ queries' = Append(queries, [payload |-> CascadePayload(t),
                                           nonempty |-> got.retData # <<>>])
            /\ IF got.kind = "malformed"
               THEN /\ Return(NoDate, "malformed")
                    /\ UNCHANGED <<response_data, candidates>>
               ELSE IF NoRetData(got)
               THEN /\ IF t = LastTier
                       THEN Return(NoDate, "not_found")
                       ELSE UNCHANGED <<pc, pdf_path, outcome>>
                    /\ UNCHANGED <<response_data, candidates>>
               ELSE /\ response_data' = got
                    /\ IF PdfFiles(got.retData) = <<>>
                       THEN /\ Return(NoDate, "no_pdf")
                            /\ UNCHANGED candidates
                       ELSE /\ candidates' = Candidates(got.retData, utcToday)
                            /\ pc' = "inspect"
                            /\ UNCHANGED <<pdf_path, outcome>>
    /\ UNCHANGED <<utcToday, raw_date, desired_date, ci, temp_files, scratch,
                   downloads, latest_item, accepted, report_files, report_dir,
                   clock_time, made_dirs, date_str, parsed_dt, extractVars, dbVars>>

\* One pass of the inspection loop over candidates[ci].
Inspect ==
    /\ pc = "inspect"
    /\ ci <= Len(candidates)
    /\ LET item == candidates[ci]
           e == response_data.retData[item]
           tmp == Len(downloads) + 1
           Log(g, p) == Append(downloads,
                               [item |-> item, phase |-> "inspect", got |-> g, printed |-> p])
       IN  IF ~e.path
           THEN /\ ci' = ci + 1
                /\ UNCHANGED <<pc, temp_files, scratch, downloads, accepted,
                               report_files, pdf_path, outcome>>
           ELSE \E g \in {"ok", "fail", "partial"} :
                \E printed \in {e.printed, NoDate} :
                \E renamed \in BOOLEAN :
                   IF g # "ok"
                   THEN /\ printed = NoDate /\ renamed
                        /\ downloads' = Log(g, NoDate)
                        /\ scratch' = IF g = "partial" THEN scratch \cup {tmp} ELSE scratch
                        /\ ci' = ci + 1
                        /\ UNCHANGED <<pc, temp_files, accepted, report_files,
                                       pdf_path, outcome>>
                   ELSE /\ downloads' = Log("ok", printed)
                        /\ temp_files' = Append(temp_files, tmp)
                        /\ IF ~Accepts(printed, desired_date, utcToday)
                           THEN /\ renamed
                                /\ scratch' = scratch \cup {tmp}
                                /\ ci' = ci + 1
                                /\ UNCHANGED <<pc, accepted, report_files, pdf_path, outcome>>
                           ELSE IF renamed
                           THEN /\ scratch' = CleanupAccepted(scratch, temp_files')
                                /\ report_files' = report_files \cup
                                      {[name |-> VerifiedName(printed, desired_date),
                                        item |-> item]}
                                /\ accepted' = [item |-> item, printed |-> printed,
                                                how |-> "verified"]
                                /\ Return(VerifiedName(printed, desired_date), "verified")
                                /\ UNCHANGED ci
                           ELSE /\ scratch' = scratch \cup {tmp}
                                /\ Return(NoDate, "rename_error")
                                /\ UNCHANGED <<ci, accepted, report_files>>
    /\ UNCHANGED <<utcToday, raw_date, desired_date, response_data, lastResp,
                   queries, candidates, latest_item, report_dir, clock_time,
                   made_dirs, date_str,
                   parsed_dt, extractVars, dbVars>>

\* After the loop: the clean-up of the scratch files and the unconditional
\* fallback, the download of the entry item of the listing.
FallbackItem(item) ==
    /\ pc = "inspect"
    /\ ci > Len(candidates)
    /\ LET L == response_data.retData
           name == FallbackName(L[item], desired_date)
       IN  /\ scratch' = CleanupNoMatch(scratch, temp_files)
           /\ latest_item' = item
           /\ IF ~L[item].path
              THEN /\ Return(NoDate, "missing_path")
                   /\ UNCHANGED <<downloads, accepted, report_files>>
              ELSE \E g \in {"ok", "fail", "partial"} :
                   /\ downloads' = Append(downloads,
                         [item |-> item, phase |-> "final", got |-> g, printed |-> NoDate])
                   /\ report_files' = IF g = "fail" THEN report_files
                                      ELSE report_files \cup {[name |-> name, item |-> item]}
                   /\ IF g = "ok"
                      THEN /\ accepted' = [item |-> item, printed |-> L[item].printed,
                                           how |-> "fallback"]
                           /\ Return(name, "fallback")
                      ELSE /\ Return(NoDate, "download_error")
                           /\ UNCHANGED accepted
    /\ UNCHANGED <<utcToday, raw_date, desired_date, response_data, lastResp,
                   queries, candidates, ci, temp_files, report_dir, clock_time,
                   made_dirs, date_str,
                   parsed_dt, extractVars, dbVars>>

\* The unconditional fallback downloads the most recent entry.
Fallback == FallbackItem(LatestItem(response_data.retData))

\* Command.handle after fetch_latest_pdf has returned: with a PDF it calls
\* extract_tables_from_pdf, without one it reports the failure and finishes.
HandleAfterFetch ==
    /\ pc = "returned"
    /\ pc' = AfterFetch(pdf_path)
    /\ UNCHANGED <<fetchVars, extractVars, dbVars>>

Next == HandleStart \/ ListingQuery \/ Inspect \/ Fallback \/ HandleAfterFetch

Spec == Init /\ [][Next]_vars

\* ------------------------------------------ extract_tables_from_pdf

\* extract_tables_from_pdf is called with an accepted PDF.
InitExtract ==
    /\ pc = "extract"
    /\ utcToday = Today
    /\ FetchIdle
    /\ ExtractIdle
    /\ DbIdle

\* tabula.read_pdf: the tables of the document, or none when it raises
ReadPdf ==
    /\ pc = "extract"
    /\ \E raised \in BOOLEAN : \E ts \in TableSeqs :
        /\ raised => ts = <<>>
        /\ read_raised' = raised
        /\ tables' = ts
    /\ pc' = "scan"
    /\ UNCHANGED <<ti, table_a_df, table_g_df, extracted, label, short_key,
                   short_key2, fetchVars, dbVars>>

\* One pass of the identification loop, with its break once both are bound.
ScanTable ==
    /\ pc = "scan"
    /\ ti <= Len(tables)
    /\ LET b == BindTable(tables[ti], ti, table_a_df, table_g_df)
       IN  /\ table_a_df' = b[1]
           /\ table_g_df' = b[2]
           /\ IF ~tables[ti].empty /\ b[1] # 0 /\ b[2] # 0
              THEN pc' = "identified" /\ UNCHANGED ti
              ELSE pc' = pc /\ ti' = ti + 1
    /\ UNCHANGED <<tables, read_raised, extracted, label, short_key, short_key2,
                   fetchVars, dbVars>>

\* The loop has gone through every table.
EndScan ==
    /\ pc = "scan"
    /\ ti > Len(tables)
    /\ pc' = "identified"
    /\ UNCHANGED <<extractVars, fetchVars, dbVars>>

\* The rest of extract_tables_from_pdf: the mappings of the bound tables or
\* the template, written to the JSON file and returned.
BuildJson ==
    /\ pc = "identified"
    /\ extracted' = FinalJson(tables, table_a_df, table_g_df)
    /\ pc' = "extracted"
    /\ UNCHANGED <<tables, ti, table_a_df, table_g_df, read_raised, label,
                   short_key, short_key2, fetchVars, dbVars>>

\* ------------------------------------------------------ candidate selection

\* The cascade has settled on a listing.  No entry of a long listing is near
\* today: the UTC date makes no difference to it and is taken equal to Today.
InitSelect ==
    /\ pc = "select"
    /\ utcToday \in {Today - 1, Today}
    /\ raw_date = [given |-> FALSE, parsed |-> NoDate]
    /\ desired_date = Today
    /\ response_data \in { [kind |-> "data", retData |-> L] : L \in SelectListings }
    /\ Len(response_data.retData) > MaxListing => utcToday = Today
    /\ lastResp = "data"
    /\ queries = <<>>
    /\ candidates = <<>>
    /\ ci = 1
    /\ temp_files = <<>>
    /\ scratch = {}
    /\ downloads = <<>>
    /\ latest_item = 0
    /\ accepted = NoAccepted
    /\ report_files = {}
    /\ report_dir = MakeReportDir(Today, 0)
    /\ clock_time = 0
    /\ made_dirs = <<report_dir>>
    /\ date_str = NoString
    /\ parsed_dt = NoDateTime
    /\ pdf_path = NoDate
    /\ outcome = "none"
    /\ ExtractIdle
    /\ DbIdle

\* fetch_latest_pdf from the PDF filter to the candidate list.
SelectCandidates ==
    /\ pc = "select"
    /\ IF PdfFiles(response_data.retData) = <<>>
       THEN /\ Return(NoDate, "no_pdf")
            /\ UNCHANGED candidates
       ELSE /\ candidates' = Candidates(response_data.retData, utcToday)
            /\ pc' = "inspect"
            /\ UNCHANGED <<pdf_path, outcome>>
    /\ UNCHANGED <<utcToday, raw_date, desired_date, response_data, lastResp,
                   queries, ci, temp_files, scratch, downloads, latest_item,
                   accepted, report_files, report_dir, clock_time, made_dirs,
                   date_str, parsed_dt,
                   extractVars, dbVars>>

NextSelect == SelectCandidates

SpecSelect == InitSelect /\ [][NextSelect]_vars

\* ------------------------------------------------ _parse_date_from_string

\* A string is about to be parsed.
InitParse ==
    /\ pc = "parse"
    /\ utcToday = Today
    /\ raw_date = [given |-> FALSE, parsed |-> NoDate]
    /\ desired_date = NoDate
    /\ response_data = NoResponse
    /\ lastResp = "none"
    /\ queries = <<>>
    /\ candidates = <<>>
    /\ ci = 1
    /\ temp_files = <<>>
    /\ scratch = {}
    /\ downloads = <<>>
    /\ latest_item = 0
    /\ accepted = NoAccepted
    /\ report_files = {}
    /\ report_dir = NoDir
    /\ clock_time = 0
    /\ made_dirs = <<>>
    /\ date_str \in DateStrings
    /\ parsed_dt = NoDateTime
    /\ pdf_path = NoDate
    /\ outcome = "none"
    /\ ExtractIdle
    /\ DbIdle

\* _parse_date_from_string(date_str)
ParseDate ==
    /\ pc = "parse"
    /\ parsed_dt' = ParseDateFromString(date_str.text)
    /\ pc' = "parsed"
    /\ UNCHANGED <<utcToday, raw_date, desired_date, response_data, lastResp,
                   queries, candidates, ci, temp_files, scratch, downloads,
                   latest_item, accepted, report_files, report_dir, clock_time,
                   made_dirs, date_str,
                   pdf_path, outcome, extractVars, dbVars>>

NextParse == ParseDate

SpecParse == InitParse /\ [][NextParse]_vars

\* --------------------------------------------------- get_short_key_simple

\* A label is about to be shortened.
InitKeys ==
    /\ pc = "label"
    /\ utcToday = Today
    /\ FetchIdle
    /\ tables = <<>>
    /\ ti = 1
    /\ table_a_df = 0
    /\ table_g_df = 0
    /\ read_raised = FALSE
    /\ extracted = NoPosoco
    /\ label \in Labels
    /\ short_key = <<>>
    /\ short_key2 = <<>>
    /\ DbIdle

\* short_key = get_short_key_simple(label)
ShortenKey ==
    /\ pc = "label"
    /\ short_key' = GetShortKeySimple(label)
    /\ pc' = "shortened"
    /\ UNCHANGED <<tables, ti, table_a_df, table_g_df, read_raised, extracted,
                   label, short_key2, fetchVars, dbVars>>

\* get_short_key_simple applied to its own result
ShortenAgain ==
    /\ pc = "shortened"
    /\ short_key2' = GetShortKeySimple(short_key)
    /\ pc' = "reshortened"
    /\ UNCHANGED <<tables, ti, table_a_df, table_g_df, read_raised, extracted,
                   label, short_key, fetchVars, dbVars>>

NextKeys == ShortenKey \/ ShortenAgain

SpecKeys == InitKeys /\ [][NextKeys]_vars

\* --------------------------------------------------- handle and save_to_db

\* The stores are empty and no invocation has started.
InitDb ==
    /\ pc = "idle"
    /\ utcToday = Today
    /\ FetchIdle
    /\ ExtractIdle
    /\ DbIdle

\* Midnight passes.
Tick ==
    /\ now = Today
    /\ now' = now + 1
    /\ UNCHANGED <<pc, fetchVars, extractVars, runs, ipc, target, report_date,
                   final_json, pos, save_result, tableA, tableG, lastWrite, written,
                   jobVars>>

\* save_to_db returns and the invocation ends; its locals are gone.
Ends(p, why) ==
    /\ ipc' = [ipc EXCEPT ![p] = "done"]
    /\ save_result' = [save_result EXCEPT ![p] = why]
    /\ pos' = [pos EXCEPT ![p] = 1]
    /\ final_json' = [final_json EXCEPT ![p] = NoJson]
    /\ target' = [target EXCEPT ![p] = NoDate]
    /\ report_date' = [report_date EXCEPT ![p] = NoDate]

\* Command.handle of invocation p up to the first statement of save_to_db:
\* the target date, and the record extracted from the PDF it obtained (NoJson:
\* no PDF was obtained and save_to_db is not called).
StartRun(p) ==
    /\ ipc[p] \in {"idle", "done"}
    /\ runs < MaxRuns
    /\ runs' = runs + 1
    /\ \E r \in RawDates : \E fj \in Jsons \cup {NoJson} :
        IF ParseFails(r)
        THEN /\ fj = NoJson
             /\ Ends(p, "date_parse_error")
        ELSE IF fj = NoJson
        THEN Ends(p, "no_pdf")
        ELSE LET tgt == IF r.given THEN r.parsed ELSE now
             IN  /\ target' = [target EXCEPT ![p] = tgt]
                 /\ final_json' = [final_json EXCEPT ![p] = fj]
                 /\ ipc' = [ipc EXCEPT ![p] = "saving"]
                 /\ report_date' = [report_date EXCEPT ![p] = ReportDateOf(tgt, now)]
                 /\ pos' = [pos EXCEPT ![p] = 1]
                 /\ save_result' = [save_result EXCEPT ![p] = "none"]
    /\ written' = {}
    /\ UNCHANGED <<pc, fetchVars, extractVars, now, tableA, tableG, lastWrite,
                   jobVars>>

Store(st) == IF st = "A" THEN tableA ELSE tableG

SetStore(st, tbl) ==
    IF st = "A" THEN tableA' = tbl /\ UNCHANGED tableG
    ELSE tableG' = tbl /\ UNCHANGED tableA

Wrote(st, date, key, values) ==
    /\ lastWrite' = [k \in DOMAIN lastWrite \cup {<<st, date, key>>} |->
                       IF k = <<st, date, key>> THEN values ELSE lastWrite[k]]
    /\ written' = written \cup {<<st, date, key>>}

\* Mutant: the error is reported and save_to_db goes on with the next row.
StorageError_Continues(p) ==
    /\ save_result' = [save_result EXCEPT ![p] = "storage_error"]
    /\ pos' = [pos EXCEPT ![p] = @ + 1]
    /\ ipc' = [ipc EXCEPT ![p] = "saving"]
    /\ UNCHANGED <<target, report_date, final_json, tableA, tableG, lastWrite, written>>

\* update_or_create raises a database error: the except clause of save_to_db
\* reports it and save_to_db returns.
StorageError(p) ==
    /\ Ends(p, "storage_error")
    /\ tableA' = AfterError(tableA, "A", written)
    /\ tableG' = AfterError(tableG, "G", written)
    /\ UNCHANGED <<lastWrite, written>>

\* save_to_db at its next row: the row is skipped, or update_or_create looks
\* the key up and updates the row it finds; when it finds none the insert
\* follows as a statement of its own.
SaveRow(p) ==
    /\ ipc[p] = "saving"
    /\ pos[p] <= Len(Rows(final_json[p]))
    /\ LET r == Rows(final_json[p])[pos[p]]
           tbl == Store(r.store)
           m == Matching(tbl, r.key, report_date[p])
       IN  IF SkipsRow(r.values)
           THEN /\ pos' = [pos EXCEPT ![p] = @ + 1]
                /\ UNCHANGED <<ipc, save_result, tableA, tableG, lastWrite, written,
                               target, report_date, final_json>>
           ELSE \E ok \in BOOLEAN :
                IF ~ok
                THEN StorageError(p)
                ELSE IF m = {}
                THEN /\ ipc' = [ipc EXCEPT ![p] = "creating"]
                     /\ UNCHANGED <<pos, save_result, tableA, tableG, lastWrite, written,
                                    target, report_date, final_json>>
                ELSE IF Cardinality(m) = 1
                THEN LET i == CHOOSE i \in m : TRUE
                     IN  /\ SetStore(r.store,
                               [tbl EXCEPT ![i] = UpdatedRow(tbl[i], r.values,
                                                             Columns(r.store), target[p])])
                         /\ Wrote(r.store, report_date[p], r.key, r.values)
                         /\ pos' = [pos EXCEPT ![p] = @ + 1]
                         /\ UNCHANGED <<ipc, save_result, target, report_date, final_json>>
                ELSE /\ Ends(p, "multiple_objects")
                     /\ UNCHANGED <<tableA, tableG, lastWrite, written>>
    /\ UNCHANGED <<pc, fetchVars, extractVars, now, runs, jobVars>>

\* The insert of update_or_create, after a lookup that found no row.
CreateRow(p) ==
    /\ ipc[p] = "creating"
    /\ LET r == Rows(final_json[p])[pos[p]]
       IN  \E ok \in BOOLEAN :
           IF ~ok
           THEN StorageError(p)
           ELSE /\ SetStore(r.store,
                      Append(Store(r.store),
                             CreatedRow(r.key, report_date[p], r.values,
                                        Columns(r.store), target[p])))
                /\ Wrote(r.store, report_date[p], r.key, r.values)
                /\ pos' = [pos EXCEPT ![p] = @ + 1]
                /\ ipc' = [ipc EXCEPT ![p] = "saving"]
                /\ UNCHANGED <<save_result, target, report_date, final_json>>
    /\ UNCHANGED <<pc, fetchVars, extractVars, now, runs, jobVars>>

\* save_to_db has gone through every row.
SaveDone(p) ==
    /\ ipc[p] = "saving"
    /\ pos[p] > Len(Rows(final_json[p]))
    /\ Ends(p, "saved")
    /\ UNCHANGED <<pc, fetchVars, extractVars, now, runs, tableA, tableG, lastWrite,
                   written, jobVars>>

Step(p) == StartRun(p) \/ SaveRow(p) \/ CreateRow(p) \/ SaveDone(p)

NextDb == Tick \/ \E p \in Procs : Step(p)

SpecDb == InitDb /\ [][NextDb]_vars

\* No other invocation is running.
Alone(p) == \A q \in Procs \ {p} : ipc[q] \in {"idle", "done"}

NextSeq == Tick \/ \E p \in Procs : Alone(p) /\ Step(p)

SpecSeq == InitDb /\ [][NextSeq]_vars

\* ------------------------------------------------- report directories

\* Invocations are started at any time of this day and of the next.
InitDirs ==
    /\ pc = "dirs"
    /\ utcToday = Today
    /\ FetchIdle
    /\ ExtractIdle
    /\ DbIdle

\* A second passes.
Second ==
    /\ clock_time < MaxTime
    /\ clock_time' = clock_time + 1
    /\ UNCHANGED <<pc, utcToday, raw_date, desired_date, response_data, lastResp,
                   queries, candidates, ci, temp_files, scratch, downloads,
                   latest_item, accepted, report_files, report_dir, made_dirs,
                   date_str, parsed_dt, pdf_path, outcome, extractVars, dbVars>>

\* Midnight passes: the date goes on and the time of day starts again.
Midnight ==
    /\ now = Today
    /\ now' = now + 1
    /\ clock_time' = 0
    /\ UNCHANGED <<pc, utcToday, raw_date, desired_date, response_data, lastResp,
                   queries, candidates, ci, temp_files, scratch, downloads,
                   latest_item, accepted, report_files, report_dir, made_dirs,
                   date_str, parsed_dt, pdf_path, outcome, extractVars, runs, ipc,
                   target, report_date, final_json, pos, save_result, tableA,
                   tableG, lastWrite, written, jobVars>>

\* Command.handle of one more invocation up to make_report_dir, which makes
\* the directory or, with exist_ok=True, finds it there.
HandleMakeDir ==
    /\ runs < MaxRuns
    /\ runs' = runs + 1
    /\ \E r \in RawDates :
        /\ ~ParseFails(r)
        /\ made_dirs' = Append(made_dirs,
                MakeReportDir(IF r.given THEN r.parsed ELSE now, clock_time))
    /\ UNCHANGED <<pc, utcToday, raw_date, desired_date, response_data, lastResp,
                   queries, candidates, ci, temp_files, scratch, downloads,
                   latest_item, accepted, report_files, report_dir, clock_time,
                   date_str, parsed_dt, pdf_path, outcome, extractVars, now, ipc,
                   target, report_date, final_json, pos, save_result, tableA,
                   tableG, lastWrite, written, jobVars>>

NextDirs == Second \/ Midnight \/ HandleMakeDir

SpecDirs == InitDirs /\ [][NextDirs]_vars

\* ----------------------------------- extraction followed by persistence

\* The invocation SpecExtract follows.
Self == "i1"

\* Command.handle with the extracted record: save_to_db is entered when a
\* list of the record holds something, else handle warns and finishes.
HandleExtracted ==
    /\ pc = "extracted"
    /\ IF HasData(extracted)
       THEN /\ pc' = "saving"
            /\ target' = [target EXCEPT ![Self] = now]
            /\ report_date' = [report_date EXCEPT ![Self] = ReportDateOf(now, now)]
            /\ final_json' = [final_json EXCEPT ![Self] = ItemsOf(extracted)]
            /\ ipc' = [ipc EXCEPT ![Self] = "saving"]
       ELSE /\ pc' = "finished"
            /\ UNCHANGED <<target, report_date, final_json, ipc>>
    /\ UNCHANGED <<fetchVars, extractVars, now, runs, pos, save_result, tableA,
                   tableG, lastWrite, written, jobVars>>

\* save_to_db has returned: handle reports that the process finished.
HandleFinished ==
    /\ pc = "saving"
    /\ ipc[Self] = "done"
    /\ pc' = "finished"
    /\ UNCHANGED <<fetchVars, extractVars, dbVars>>

NextExtract ==
    \/ ReadPdf \/ ScanTable \/ EndScan \/ BuildJson \/ HandleExtracted
    \/ SaveRow(Self) \/ CreateRow(Self) \/ SaveDone(Self) \/ HandleFinished

SpecExtract == InitExtract /\ [][NextExtract]_vars

\* ------------------------------------------------------ the job dashboard

\* The dashboard over an empty database or one whose jobs were made before,
\* their status set in the admin site.
InitJobs ==
    /\ pc = "jobs"
    /\ utcToday = Today
    /\ FetchIdle
    /\ ExtractIdle
    /\ RunsIdle
    /\ jobs \in [JobNames -> {NoJob} \cup { [NewJob EXCEPT !.status = st] : st \in Statuses }]
    /\ spawned = [n \in JobNames |-> 0]
    /\ api_today = NoDate

\* dashboard_view: the jobs that are missing are created.
DashboardView ==
    /\ \E n \in JobNames : ~jobs[n].exists
    /\ jobs' = [n \in JobNames |-> IF jobs[n].exists THEN jobs[n] ELSE NewJob]
    /\ UNCHANGED <<pc, fetchVars, extractVars, now, runs, ipc, target, report_date,
                   final_json, pos, save_result, tableA, tableG, lastWrite, written,
                   spawned, api_today>>

\* run_script_view, a POST for a job that exists: the job is saved as
\* running and the command is started in a process of its own.  Any other
\* request is answered with an error and changes nothing.
RunScriptView(script_name) ==
    /\ jobs[script_name].exists
    /\ spawned["posoco"] + spawned["merge_reports"] < MaxSpawn
    /\ jobs' = [jobs EXCEPT ![script_name] = StartedJob(@, now)]
    /\ spawned' = [spawned EXCEPT ![script_name] = @ + 1]
    /\ UNCHANGED <<pc, fetchVars, extractVars, now, runs, ipc, target, report_date,
                   final_json, pos, save_result, tableA, tableG, lastWrite, written,
                   api_today>>

\* dashboard_status_api: the flag of every job is brought up to date.  today
\* is the date of timezone.now(), the local date or the one before it.
DashboardStatusApi ==
    /\ \E today \in {now - 1, now} : \E merged \in BOOLEAN :
        /\ api_today' = today
        /\ jobs' = [n \in JobNames |->
                        IF jobs[n].exists
                        THEN PolledJob(jobs[n], DataExists(n, today, tableA, tableG, merged))
                        ELSE jobs[n]]
    /\ UNCHANGED <<pc, fetchVars, extractVars, now, runs, ipc, target, report_date,
                   final_json, pos, save_result, tableA, tableG, lastWrite, written,
                   spawned>>

\* A process run_script_view started for posoco runs the command.
StartSpawned ==
    /\ runs < spawned["posoco"]
    /\ StartRun(Self)

NextJobs ==
    \/ DashboardView
    \/ \E n \in JobNames : RunScriptView(n)
    \/ DashboardStatusApi
    \/ Tick
    \/ StartSpawned
    \/ SaveRow(Self)
    \/ CreateRow(Self)
    \/ SaveDone(Self)

SpecJobs == InitJobs /\ [][NextJobs]_vars

\* ------------------------------------------------------------------ claims

\* fetch_latest_pdf has returned.
FetchReturned == pc \in {"returned", "extract", "finished"} /\ outcome # "date_parse_error"

\* The downloads of the inspection loop that produced a scratch file.
Inspected == SelectSeq(downloads, LAMBDA d : d.phase = "inspect" /\ d.got = "ok")

FailedDownloads == { i \in 1..Len(downloads) : downloads[i].got # "ok" }

\* C1: cascade ordering.  The first listing query carries the exact
\* {date, month} filter, the second no date filter, the following ones the
\* days Today, Today - 1, ... of the scan, at most seven of them; a query is
\* issued only when every query before it returned nothing, and after a
\* non-empty listing no further query is issued.
C1_CascadeOrdering ==
    /\ Len(queries) <= 2 + ScanDays
    /\ \A i \in 1..Len(queries) :
        /\ i = 1 => queries[i].payload.fileDate = Today
        /\ i = 2 => queries[i].payload.fileDate = NoDate
        /\ i > 2 => queries[i].payload.fileDate = Today - (i - 3)
        /\ i < Len(queries) => ~queries[i].nonempty
        /\ queries[i].nonempty => pc # "listing"

\* C1 witness: the scan found a listing on its second day, after four empty
\* answers, and the run went on to inspect it.
C1_Witness ==
    /\ Len(queries) = 4
    /\ queries[4].nonempty
    /\ pc = "inspect"

\* What the claim C2 calls a match of a printed date.
C2_Matches(d) ==
    /\ d # NoDate
    /\ IF raw_date.given THEN d = desired_date ELSE d \in {Today, utcToday}

\* C2: acceptance rule.  A candidate is accepted by verification only if its
\* printed date equals the target date (a target was supplied) or local-today
\* or UTC-today (none was supplied); the first inspected candidate with such a
\* printed date ends the inspection: no later candidate is downloaded.
C2_AcceptanceRule ==
    /\ accepted.how = "verified" => C2_Matches(accepted.printed)
    /\ \A i \in 1..Len(Inspected) :
        C2_Matches(Inspected[i].printed) =>
            /\ i = Len(Inspected)
            /\ FetchReturned
            /\ outcome \in {"verified", "rename_error"}
            /\ outcome = "verified" => accepted.item = Inspected[i].item

\* The PDF entry with the greatest inferred date, the first listed of several.
C3_Greatest(L) ==
    LET pdf == { i \in 1..Len(L) : L[i].mime = PDF }
    IN  CHOOSE m \in pdf : \A j \in pdf :
            \/ FileDateKey(L[m]) > FileDateKey(L[j])
            \/ FileDateKey(L[m]) = FileDateKey(L[j]) /\ m <= j

\* fetch_latest_pdf has returned, the listing held a PDF entry and no inspected
\* candidate's printed date equalled the target date.
C3_NoMatch ==
    /\ FetchReturned
    /\ PdfFiles(response_data.retData) # <<>>
    /\ \A i \in 1..Len(Inspected) : Inspected[i].printed # desired_date

\* C3 as stated: whenever the listing holds a PDF entry and no inspected
\* candidate matched, the entry with the greatest inferred date among all PDF
\* entries is downloaded and returned as the accepted report, named for the
\* target date.
C3_Original ==
    C3_NoMatch =>
        /\ outcome = "fallback"
        /\ accepted.item = C3_Greatest(response_data.retData)
        /\ pdf_path = desired_date

\* C3 amended: in that case the fallback chooses the entry with the greatest
\* inferred date among all PDF entries; if the entry has a file path and its
\* download succeeds it is returned as the accepted report, with no check of
\* its printed date and named for the target date; otherwise no report is
\* returned.
C3_Fallback ==
    C3_NoMatch =>
        LET L == response_data.retData
            g == C3_Greatest(L)
        IN  /\ latest_item = g
            /\ IF L[g].path /\ downloads[Len(downloads)].got = "ok"
               THEN /\ outcome = "fallback"
                    /\ accepted = [item |-> g, printed |-> L[g].printed, how |-> "fallback"]
                    /\ pdf_path = desired_date
                    /\ [name |-> desired_date, item |-> g] \in report_files
                    /\ downloads[Len(downloads)] =
                           [item |-> g, phase |-> "final", got |-> "ok", printed |-> NoDate]
               ELSE pdf_path = NoDate

\* C3 witness: the accepted file is named for the target date, its printed
\* date is another one, and it is not one of the inspected candidates.
C3_Witness ==
    /\ FetchReturned
    /\ outcome = "fallback"
    /\ pdf_path = desired_date
    /\ accepted.printed # desired_date
    /\ \A i \in 1..Len(candidates) : candidates[i] # accepted.item
    /\ Len(Inspected) > 0

\* C4: at every return of fetch_latest_pdf no scratch file of the run is left
\* on disk (the promoted one has moved to the report directory).
C4_ScratchCleanup == FetchReturned => scratch = {}

\* C9: a failed listing query has the effect of an empty listing.  After a
\* failure, as after an empty answer, nothing is retained from the answer and
\* the run stands before the next query of the cascade; after the last scan
\* day it returns not-found.  It is not ended by the failure.
C9_FailureAbsorbed ==
    lastResp \in {"fail", "empty"} =>
        /\ ~queries[Len(queries)].nonempty
        /\ response_data = NoResponse
        /\ candidates = <<>>
        /\ downloads = <<>>
        /\ IF Len(queries) < 2 + ScanDays
           THEN pc = "listing" /\ outcome = "none" /\ pdf_path = NoDate
           ELSE FetchReturned /\ outcome = "not_found" /\ pdf_path = NoDate

\* C9 witness: the exact query and the first scan day have failed or been
\* empty, the last answer was a failure, and the run is about to query the
\* next scan day.
C9_Witness ==
    /\ lastResp = "fail"
    /\ Len(queries) = 3
    /\ pc = "listing"

\* C10: one failed file download does not by itself end the run without a
\* PDF: a run in which exactly one download failed does not return on a
\* download error.
C10_SingleDownloadFailure ==
    (FetchReturned /\ Cardinality(FailedDownloads) = 1) => outcome # "download_error"

\* C11: not found.  When every listing query of the cascade, the exact one,
\* the one without a date and the seven scan days, came back empty or failed,
\* fetch_latest_pdf returns no path and the run ends in failure: no file was
\* downloaded, no PDF is in the report directory, nothing was extracted and no
\* JSON written, and save_to_db was not entered.
C11_NotFound ==
    (/\ Len(queries) = 2 + ScanDays
     /\ \A i \in 1..Len(queries) : ~queries[i].nonempty
     /\ lastResp \in {"fail", "empty"}) =>
        /\ pc \in {"returned", "finished"}
        /\ outcome = "not_found"
        /\ pdf_path = NoDate
        /\ downloads = <<>>
        /\ report_files = {}
        /\ scratch = {}
        /\ extracted = NoPosoco
        /\ \A p \in Procs : ipc[p] = "idle"
        /\ tableA = <<>> /\ tableG = <<>>

\* C11 witness: after nine listing queries, none with an answer, handle has
\* reported the failed download and finished.
C11_Witness ==
    /\ pc = "finished"
    /\ outcome = "not_found"
    /\ Len(queries) = 2 + ScanDays
    /\ \E i \in 1..Len(queries) : queries[i].payload.fileDate = Today - (ScanDays - 1)

\* C12: a --date string that is not empty and does not parse ends the run at
\* once: no report directory is created, no listing query is issued, no file
\* is downloaded and nothing is persisted.  An absent or empty --date is no
\* error: the run goes on with today's date as the target date.
C12_UnparseableDate ==
    /\ (raw_date.given /\ raw_date.parsed = NoDate) =>
          /\ pc = "finished"
          /\ outcome = "date_parse_error"
          /\ report_dir = NoDir
          /\ made_dirs = <<>>
          /\ queries = <<>>
          /\ downloads = <<>>
          /\ report_files = {}
          /\ extracted = NoPosoco
          /\ tableA = <<>> /\ tableG = <<>>
    /\ (pc # "start" /\ ~raw_date.given) =>
          /\ outcome # "date_parse_error"
          /\ desired_date = Today
          /\ report_dir = MakeReportDir(Today, clock_time)

\* C12 witness: the run has ended on a --date that did not parse.
C12_Witness ==
    /\ pc = "finished"
    /\ raw_date.given
    /\ raw_date.parsed = NoDate
    /\ outcome = "date_parse_error"

C5_PeakTables == { i \in 1..Len(tables) : ~tables[i].empty /\ tables[i].peak }

C5_CoalTables ==
    { i \in 1..Len(tables) : ~tables[i].empty /\ ~tables[i].peak /\ tables[i].coal }

\* C5: first-occurrence binding.  Table A is bound to the first extracted
\* table whose first column contains "Demand Met during Evening Peak", Table G
\* to the first table the "Coal" anchor binds; a later table that matches the
\* anchor does not replace the binding.
C5_FirstOccurrence ==
    /\ table_a_df # 0 => table_a_df = Least(C5_PeakTables)
    /\ table_g_df # 0 => table_g_df = Least(C5_CoalTables)

\* extract_tables_from_pdf has returned.
Extracted == pc \in {"extracted", "saving", "finished"}

\* The template as extract_tables_from_pdf returns it.
C13_Template == Posoco(<<TemplateJson.a>>, <<TemplateJson.g>>)

C13_KeysA ==
    {"demand_evening_peak", "peak_shortage", "energy", "hydro", "wind", "solar",
     "energy_shortage", "max_demand_day", "time_of_max_demand"}

C13_KeysG ==
    {"coal", "lignite", "hydro", "nuclear", "gas_naptha_diesel", "res_total", "total"}

\* Every key of keys is in the mapping d once, with None, and nothing else is.
C13_AllNone(d, keys) ==
    /\ Len(d) = Cardinality(keys)
    /\ \A k \in keys : \E i \in 1..Len(d) : d[i] = Item(<<k>>, NoneValue)

\* The mappings of the record fj.
C13_Dicts(fj) == Range(fj.posoco_table_a) \cup Range(fj.posoco_table_g)

\* C13: the record extract_tables_from_pdf returns is the template, every one
\* of the nine keys of Table A and the seven of Table G present with None,
\* exactly when neither table was bound.  When a table was bound no entry of
\* the template appears: the list of a table that was not bound is empty, the
\* list of a bound table holds the mapping made from its rows.
C13_TemplateIffUnbound ==
    Extracted =>
        /\ (table_a_df = 0 /\ table_g_df = 0) <=> extracted = C13_Template
        /\ (table_a_df = 0 /\ table_g_df = 0) =>
              /\ Len(extracted.posoco_table_a) = 1
              /\ Len(extracted.posoco_table_g) = 1
              /\ C13_AllNone(extracted.posoco_table_a[1], C13_KeysA)
              /\ C13_AllNone(extracted.posoco_table_g[1], C13_KeysG)
        /\ (table_a_df # 0 \/ table_g_df # 0) =>
              /\ extracted.posoco_table_a =
                    IF table_a_df = 0 THEN <<>>
                    ELSE <<TableDict(tables[table_a_df].rows, "A")>>
              /\ extracted.posoco_table_g =
                    IF table_g_df = 0 THEN <<>>
                    ELSE <<TableDict(tables[table_g_df].rows, "G")>>
              /\ \A d \in C13_Dicts(extracted) : \A i \in 1..Len(d) : d[i].values.isdict

\* C13 witness: Table A alone was bound; the record holds its mapping and an
\* empty list for Table G.
C13_Witness ==
    /\ Extracted
    /\ table_a_df # 0
    /\ table_g_df = 0
    /\ extracted.posoco_table_g = <<>>
    /\ Len(extracted.posoco_table_a) = 1
    /\ extracted.posoco_table_a[1] # <<>>

\* C14: when structural extraction raises, the run is not ended by it: the
\* record is the template for both tables, save_to_db goes through it and
\* writes no row to either store.
C14_ExtractionFailure ==
    read_raised =>
        /\ tables = <<>>
        /\ Extracted => extracted = C13_Template
        /\ tableA = <<>>
        /\ tableG = <<>>
        /\ ipc[Self] # "creating"
        /\ pc = "finished" => save_result[Self] = "saved"

\* C14 witness: extraction raised, save_to_db went through the template and
\* the run finished.
C14_Witness ==
    /\ read_raised
    /\ pc = "finished"
    /\ save_result[Self] = "saved"
    /\ extracted = C13_Template

\* The tables bound as Table A and as Table G, with the list made from each.
C15_Bound ==
    { b \in { [st |-> "A", df |-> table_a_df, out |-> extracted.posoco_table_a],
              [st |-> "G", df |-> table_g_df, out |-> extracted.posoco_table_g] } :
        b.df # 0 }

\* C15: row emission.  For every bound table, a row whose cells are all empty
\* has no entry of its own in the mapping, every row with a cell that is not
\* empty appears under its short key with exactly its non-empty cells, and no
\* entry of the mapping is without a value.
C15_RowEmission ==
    Extracted =>
        \A b \in C15_Bound :
            /\ Len(b.out) = 1
            /\ \A i \in 1..Len(b.out[1]) : b.out[1][i].values.items # {}
            /\ \A k \in 1..Len(tables[b.df].rows) :
                LET row == tables[b.df].rows[k]
                    key == GetShortKeySimple(CleanKey(b.st, row.label))
                IN  IF AllEmpty(row)
                    THEN \A i \in 1..Len(b.out[1]) : b.out[1][i] # Item(key, RowDict(row))
                    ELSE \E i \in 1..Len(b.out[1]) : b.out[1][i] = Item(key, RowDict(row))

\* The short keys of the two tables.
C16_ShortKeys ==
    { <<TemplateKeysA[i]>> : i \in 1..Len(TemplateKeysA) }
        \cup { <<TemplateKeysG[i]>> : i \in 1..Len(TemplateKeysG) }

\* C16: the key normalizer.  Applied to its own result it changes nothing;
\* every short key is left as it is; the result for a label is the key of the
\* first rule that matches it, and no earlier rule takes a label away from a
\* later one with another key: every rule that matches a label has the key
\* the label is given.  "Hydro Gen (MU)" becomes hydro.  A label no rule
\* matches comes back stripped.
C16_Normalizer ==
    /\ pc = "reshortened" => short_key2 = short_key
    /\ pc \in {"shortened", "reshortened"} =>
          /\ label \in C16_ShortKeys => short_key = label
          /\ \A i \in 1..Len(KeyRules) :
                RuleMatches(KeyRules[i], Strip(label)) => short_key = <<KeyRules[i].key>>
          /\ (\A i \in 1..Len(KeyRules) : ~RuleMatches(KeyRules[i], Strip(label))) =>
                short_key = Strip(label)
          /\ label = <<"Hydro", SP, "Gen", SP, "(MU)">> => short_key = <<"hydro">>

\* C16 witness: "Hydro Gen (MU)" was shortened to hydro, and hydro again to
\* hydro.
C16_Witness ==
    /\ pc = "reshortened"
    /\ label = <<"Hydro", SP, "Gen", SP, "(MU)">>
    /\ short_key = <<"hydro">>
    /\ short_key2 = <<"hydro">>

\* C17: format invariance of the date parser.  Each of the four renderings of
\* a calendar date, YYYY-MM-DD, DD-MM-YYYY, DDMMYYYY and YYYYMMDD, parses to
\* that date.
C17_FormatInvariance ==
    (pc = "parsed" /\ date_str.fmt \in Renderings) => parsed_dt = date_str.of

\* The PDF entries of a listing.
C18_Pdf(L) == { i \in 1..Len(L) : L[i].mime = PDF }

\* Those whose file name holds a token of local-today or UTC-today.
C18_Named(L) ==
    { i \in C18_Pdf(L) : L[i].nameDate # NoDate /\ L[i].nameDate \in {Today, utcToday} }

\* Those whose inferred date is local-today or UTC-today.
C18_Dated(L) ==
    { i \in C18_Pdf(L) :
        InferDateSafe(L[i]) # NoDate /\ InferDateSafe(L[i]) \in {Today, utcToday} }

\* The inferred date of an entry, day one of the epoch when it has none.
C18_Key(e) ==
    IF e.metaDate # NoDate THEN e.metaDate
    ELSE IF e.nameDate # NoDate THEN e.nameDate ELSE Epoch

\* The sequence c lists the entries of S, each once, in their listing order.
C18_Lists(c, S) ==
    /\ Range(c) = S
    /\ \A i, j \in 1..Len(c) : i < j => c[i] < c[j]

\* C18: candidate tiering.  The candidates come from the first tier that is
\* not empty: every PDF entry whose file name holds a today token; else every
\* PDF entry whose inferred date is local-today or UTC-today; else the first
\* eight PDF entries by descending inferred date, an entry without a date
\* counting as the epoch.  When exactly one file name holds a today token the
\* candidate list is that entry alone.
C18_CandidateTiering ==
    pc = "inspect" =>
        LET L == response_data.retData
            c == candidates
        IN  /\ C18_Named(L) # {} => C18_Lists(c, C18_Named(L))
            /\ (C18_Named(L) = {} /\ C18_Dated(L) # {}) => C18_Lists(c, C18_Dated(L))
            /\ (C18_Named(L) = {} /\ C18_Dated(L) = {}) =>
                  /\ Range(c) \subseteq C18_Pdf(L)
                  /\ Len(c) = IF Cardinality(C18_Pdf(L)) < 8
                              THEN Cardinality(C18_Pdf(L)) ELSE 8
                  /\ Cardinality(Range(c)) = Len(c)
                  /\ \A i, j \in 1..Len(c) :
                        i < j => C18_Key(L[c[i]]) >= C18_Key(L[c[j]])
                  /\ \A x \in C18_Pdf(L) \ Range(c) : \A j \in 1..Len(c) :
                        C18_Key(L[x]) <= C18_Key(L[c[j]])
            /\ \A x \in C18_Named(L) : C18_Named(L) = {x} => c = <<x>>

\* C18 witness: nine PDF entries, none named or dated today; eight of them are
\* candidates, and the one left out has no date while a candidate has one.
C18_Witness ==
    /\ pc = "inspect"
    /\ Len(response_data.retData) = TopN + 1
    /\ Len(candidates) = TopN
    /\ \E x \in C18_Pdf(response_data.retData) \ Range(candidates) :
        /\ C18_Key(response_data.retData[x]) = Epoch
        /\ x < TopN
        /\ C18_Key(response_data.retData[candidates[TopN]]) > Epoch

\* C19: within one run no listing query is issued twice with the same
\* payload.
C19_NoRepeatedQuery ==
    \A i, j \in 1..Len(queries) :
        queries[i].payload = queries[j].payload => i = j

AllRows == Range(tableA) \cup Range(tableG)

\* C6: every row written by a run for target date D carries report_date = D.
C6_KeyedByTargetDate == \A row \in AllRows : row.report_date = row.written_for

\* No store holds two rows with the same key and report date.
UniqueKeys(tbl) ==
    \A i, j \in 1..Len(tbl) :
        (tbl[i].key = tbl[j].key /\ tbl[i].report_date = tbl[j].report_date) => i = j

\* The value columns a row holds after values was written to it.
C7_Expected(values, cols) ==
    [c \in cols |->
        IF \E it \in values.items : it[1] = c
        THEN (CHOOSE it \in values.items : it[1] = c)[2]
        ELSE Null]

\* C7: after any sequence of runs, one after the other, each store holds at
\* most one row per (report_date, key), and the row's value columns are those
\* of the most recent write of the key: a column absent from it is empty.
C7_UpsertUnique ==
    \A st \in {"A", "G"} :
        /\ UniqueKeys(Store(st))
        /\ \A row \in Range(Store(st)) :
            /\ <<st, row.report_date, row.key>> \in DOMAIN lastWrite
            /\ row.vals = C7_Expected(lastWrite[<<st, row.report_date, row.key>>],
                                      Columns(st))
        /\ \A k \in DOMAIN lastWrite :
            k[1] = st => Matching(Store(st), k[3], k[2]) # {}

\* C7 witness: a later run has overwritten a row of Table A, and a column the
\* row held before is now empty.
C7_Witness ==
    \E row \in Range(tableA) :
        /\ row.prev["TOTAL"] # Null
        /\ row.vals["TOTAL"] = Null
        /\ row.vals["NR"] = "1"

\* The row w, a member of written, is in its store with the values written.
C20_Remains(w) ==
    \E row \in Range(Store(w[1])) :
        /\ row.report_date = w[2]
        /\ row.key = w[3]
        /\ row.vals = C7_Expected(lastWrite[w], Columns(w[1]))

\* C20: a storage failure during an upsert is caught inside save_to_db: the
\* invocation goes on to its end, and every row upserted before the failure
\* in the same run is in its store with the values the run wrote.
C20_FailureContained ==
    \A p \in Procs :
        save_result[p] = "storage_error" =>
            /\ ipc[p] = "done"
            /\ \A w \in written : C20_Remains(w)

\* C20 witness: the only run so far has upserted a row of Table A and then
\* failed on a later one.
C20_Witness ==
    \E p \in Procs :
        /\ save_result[p] = "storage_error"
        /\ \A q \in Procs \ {p} : ipc[q] = "idle"
        /\ \E w \in written : w[1] = "A"
        /\ tableA # <<>>

\* C21: label cleaning in both tables.  For Table A and for Table G alike, a
\* row whose label differs from a clean label only by line breaks or runs of
\* whitespace is given the key of the clean label.
C21_LabelCleaning ==
    Extracted =>
        \A b \in C15_Bound :
            \A k \in 1..Len(tables[b.df].rows) :
                LET row == tables[b.df].rows[k]
                IN  ~AllEmpty(row) =>
                        \E i \in 1..Len(b.out[1]) :
                            b.out[1][i].key = GetShortKeySimple(JoinSplit(row.label))

\* The rows save_to_db was to write, in order, and the rows in the stores.
C24_ToWrite ==
    LET rows == SelectSeq(Rows(ItemsOf(extracted)), LAMBDA r : ~SkipsRow(r.values))
    IN  [i \in 1..Len(rows) |-> <<rows[i].store, rows[i].key>>]

C24_Stored ==
    [i \in 1..Len(tableA) |-> <<"A", tableA[i].key>>]
        \o [i \in 1..Len(tableG) |-> <<"G", tableG[i].key>>]

\* C24: a storage failure ends the persistence step.  After the first failing
\* upsert no further row of the run is written: the stores hold a strict
\* prefix of the run's rows, and when a row of Table A is missing no row of
\* Table G is there.
C24_FailureAborts ==
    save_result[Self] = "storage_error" =>
        /\ Len(C24_Stored) < Len(C24_ToWrite)
        /\ C24_Stored = SubSeq(C24_ToWrite, 1, Len(C24_Stored))
        /\ (\E i \in 1..Len(C24_ToWrite) :
                C24_ToWrite[i][1] = "A" /\ i > Len(C24_Stored)) => tableG = <<>>

\* C24 witness: the run had rows for both tables, wrote one of Table A and
\* failed on the next; handle has finished and Table G is empty.
C24_Witness ==
    /\ pc = "finished"
    /\ save_result[Self] = "storage_error"
    /\ Len(tableA) = 1
    /\ tableG = <<>>
    /\ \E i \in 1..Len(C24_ToWrite) : C24_ToWrite[i][1] = "G"
    /\ Cardinality({ i \in 1..Len(C24_ToWrite) : C24_ToWrite[i][1] = "A" }) > 1

\* C22: report directory uniqueness.  No two invocations use the same report
\* directory, whatever their target dates and start times; the final PDF and
\* JSON paths, made of the directory and the target date, then differ too.
C22_UniqueDirs ==
    \A i, j \in 1..Len(made_dirs) : made_dirs[i] = made_dirs[j] => i = j

\* The listing payloads of a run as the clock alone determines them.
C23_Payload(i) ==
    IF i = 1 THEN DatedPayload(Today)
    ELSE IF i = 2 THEN NoDatePayload
    ELSE DatedPayload(Today - (i - 3))

\* C23: the acquisition stage does not depend on the target date.  The
\* listing payloads a run issues are determined by the clock and by how many
\* answers were empty, and the candidate list by the listing and the UTC date:
\* runs that differ only in the target date issue the same payloads and get
\* the same candidates.
C23_TargetIndependent ==
    /\ \A i \in 1..Len(queries) :
        /\ queries[i].payload = C23_Payload(i)
        /\ i < Len(queries) => ~queries[i].nonempty
    /\ candidates =
            IF response_data = NoResponse \/ PdfFiles(response_data.retData) = <<>>
            THEN <<>>
            ELSE Candidates(response_data.retData, utcToday)

\* C23 witness: a run for yesterday's report has gone into the scan and has
\* candidates from the listing of a scan day.
C23_Witness ==
    /\ raw_date.given
    /\ desired_date = Today - 1
    /\ Len(queries) > 3
    /\ candidates # <<>>

\* The steps of an invocation from the last to the first.
C26_Stages ==
    << "finished", "saving", "extracted", "identified", "scan", "extract",
       "returned", "inspect", "listing", "start" >>

C26_Stage == CHOOSE i \in 1..Len(C26_Stages) : C26_Stages[i] = pc

\* What is left of the loop the invocation is in.
C26_Left ==
    CASE pc = "listing" -> LastTier + 1 - Len(queries)
      [] pc = "inspect" -> Len(candidates) + 1 - ci
      [] pc = "scan" -> Len(tables) + 1 - ti
      [] pc = "saving" ->
            IF ipc[Self] = "done" THEN 0
            ELSE 2 * (Len(Rows(final_json[Self])) + 1 - pos[Self])
                    + (IF ipc[Self] = "saving" THEN 1 ELSE 0)
      [] OTHER -> 0

C26_InspectDownloads == { i \in 1..Len(downloads) : downloads[i].phase = "inspect" }

C26_FinalDownloads == { i \in 1..Len(downloads) : downloads[i].phase = "final" }

\* An invocation that has not finished can take a step.
C26_CanStep ==
    IF pc = "inspect" /\ ci > Len(candidates)
    THEN \E item \in {LatestItem(response_data.retData)} : ENABLED FallbackItem(item)
    ELSE pc # "finished" =>
            ENABLED (HandleStart \/ ListingQuery \/ Inspect \/ HandleAfterFetch
                        \/ NextExtract)

\* C26: every invocation terminates with bounded remote work.  A run issues
\* at most nine listing queries, downloads each candidate at most once and
\* makes at most one fallback download; every step brings the invocation
\* nearer to its end (a later stage, or less left of the loop it is in), and
\* an invocation that has not finished can take a step.
C26_BoundedRun ==
    /\ [](/\ Len(queries) <= 2 + ScanDays
          /\ \A i, j \in C26_InspectDownloads :
                downloads[i].item = downloads[j].item => i = j
          /\ Cardinality(C26_InspectDownloads) <= Len(candidates)
          /\ Cardinality(C26_FinalDownloads) <= 1
          /\ C26_Left >= 0
          /\ C26_CanStep)
    /\ [][\/ C26_Stage' < C26_Stage
          \/ C26_Stage' = C26_Stage /\ C26_Left' < C26_Left]_vars

\* C26 witness: a run that needed all nine queries, inspected a candidate and
\* made the fallback download has handed its PDF to the extraction.
C26_Witness ==
    /\ pc = "extract"
    /\ Len(queries) = 2 + ScanDays
    /\ C26_InspectDownloads # {}
    /\ C26_FinalDownloads # {}

\* The table has both anchors in its first column.
C25_Both(df) == ~df.empty /\ df.peak /\ df.coal

\* C25: a table whose first column holds both anchors is bound as Table A and
\* never as Table G: the pass of the identification loop over it sets
\* table_a_df to it and leaves table_g_df alone, so that Table G is only ever
\* bound to a table without the peak anchor, another one than Table A.
C25_BothAnchors ==
    /\ [](table_g_df # 0 => ~tables[table_g_df].peak /\ table_g_df # table_a_df)
    /\ [][(pc = "scan" /\ ti <= Len(tables) /\ C25_Both(tables[ti])) =>
            (table_a_df' = ti /\ table_g_df' = table_g_df)]_vars

\* C25 witness: Table A is bound to a table with both anchors, Table G to
\* another table.
C25_Witness ==
    /\ table_a_df # 0
    /\ C25_Both(tables[table_a_df])
    /\ table_g_df # 0
    /\ table_g_df # table_a_df

C8_OneRowPerKey ==
    (\A p \in Procs : ipc[p] \in {"idle", "done"}) =>
        UniqueKeys(tableA) /\ UniqueKeys(tableG)

====
